---- MODULE Spec2Model ----
(***************************************************************************)
(* Authentication / session lifecycle of the VPS seller portal backend:    *)
(* token service (authService.ts), controllers (authController.ts) and the *)
(* authentication middleware (middleware/auth.ts).                         *)
(*                                                                         *)
(* Time is in milliseconds (Date.now()); JWT timestamps are in seconds.    *)
(***************************************************************************)
EXTENDS Integers, Sequences, FiniteSets, TLC

(***************************************************************************)
(* Bounds of the model                                                     *)
(***************************************************************************)
\* session rows ever created (Session.id values handed out by the database)
MaxSessionId == 3

\* instants the wall clock may show: two instants inside the same second
\* and the instant at which an access token signed in that second expires
Instants == {0, 500, 900000}

\* addresses that may register, and the passwords clients type
Emails == {"a@x.com"}
Passwords == {"Passw0rd!", "wrong"}

(***************************************************************************)
(* Configuration (process.env)                                             *)
(***************************************************************************)
JWT_SECRET == "JWT_SECRET"
JWT_REFRESH_SECRET == "JWT_REFRESH_SECRET"
jwtExpiresIn == [value |-> 15, unit |-> "m"]
jwtRefreshExpiresIn == [value |-> 7, unit |-> "d"]

\* speakeasy: TOTP step of 30 s, and the verification window of the service
TotpStepMs == 30000
TotpWindow == 2

VARIABLES
  users,          \* User table: sequence of rows, id = position
  sessions,       \* Session table: set of rows
  nextSessionId,  \* next Session.id the database hands out
  auditLog,       \* AuditLog table: sequence of rows
  mailbox,        \* verification mails delivered: set of [to, token]
  issued,         \* tokens that reached a client (responses and mails)
  now,            \* wall clock, ms
  last,           \* the last request and its response
  rotated,        \* history: refresh tokens a successful refresh consumed
  everStored,     \* history: refresh tokens of all Session rows ever created
  tempTokens,     \* history: tokens a login returned as tempToken
  procs,          \* in-flight refresh requests (interleaved specification)
  call            \* a call of one function on drawn inputs, and its result

vars == <<users, sessions, nextSessionId, auditLog, mailbox, issued, now,
          last, rotated, everStored, tempTokens, procs, call>>

(***************************************************************************)
(* Token service: authService.ts                                           *)
(***************************************************************************)
\* AuthService.parseTimeToMs
parseTimeToMs(timeString) ==
  CASE timeString.unit = "s" -> timeString.value * 1000
    [] timeString.unit = "m" -> timeString.value * 60 * 1000
    [] timeString.unit = "h" -> timeString.value * 60 * 60 * 1000
    [] timeString.unit = "d" -> timeString.value * 24 * 60 * 60 * 1000

\* jwt.sign(payload, secret, {expiresIn}): HS256 is deterministic, so the
\* token is a function of payload, key, iat and exp; iat is in whole seconds
jwtSign(payload, secret, expiresIn, t) ==
  [key    |-> secret,
   userId |-> payload.userId,
   email  |-> payload.email,
   role   |-> payload.role,
   iat    |-> t \div 1000,
   exp    |-> (t \div 1000) + (parseTimeToMs(expiresIn) \div 1000)]

\* jwt.verify(token, secret): signature first, then expiry
jwtVerify(token, secret, t) ==
  IF token.key # secret THEN "JsonWebTokenError"
  ELSE IF (t \div 1000) >= token.exp THEN "TokenExpiredError"
  ELSE "ok"

\* a string that is no token of this service
Garbage ==
  [key |-> "garbage", userId |-> 0, email |-> "", role |-> "",
   iat |-> 0, exp |-> 0]

\* AuthService.generateTokens
generateTokens(payload, t) ==
  [accessToken  |-> jwtSign(payload, JWT_SECRET, jwtExpiresIn, t),
   refreshToken |-> jwtSign(payload, JWT_REFRESH_SECRET, jwtRefreshExpiresIn, t)]

\* AuthService.verifyAccessToken: "ok", or the message of the error thrown
verifyAccessToken(token, t) ==
  LET r == jwtVerify(token, JWT_SECRET, t) IN
  IF r = "TokenExpiredError" THEN "Access token expired"
  ELSE IF r = "JsonWebTokenError" THEN "Invalid access token"
  ELSE "ok"

\* AuthService.verifyRefreshToken
verifyRefreshToken(token, t) ==
  LET r == jwtVerify(token, JWT_REFRESH_SECRET, t) IN
  IF r = "TokenExpiredError" THEN "Refresh token expired"
  ELSE IF r = "JsonWebTokenError" THEN "Invalid refresh token"
  ELSE "ok"

\* AuthService.hashPassword / comparePassword (bcrypt): one-way, salted
hashPassword(password) == [bcrypt |-> password]
comparePassword(password, hash) == hash.bcrypt = password

\* payload of a user row
PayloadOf(user) == [userId |-> user.id, email |-> user.email, role |-> user.role]

\* the Session row storeSession builds
SessionRow(id, userId, tokens, t) ==
  [id               |-> id,
   userId           |-> userId,
   token            |-> tokens.accessToken,
   refreshToken     |-> tokens.refreshToken,
   expiresAt        |-> t + parseTimeToMs(jwtExpiresIn),
   refreshExpiresAt |-> t + parseTimeToMs(jwtRefreshExpiresIn)]

\* prisma.session.create succeeds unless the unique refreshToken is taken
CanCreateSession(ss, tokens) ==
  \A s \in ss : s.refreshToken # tokens.refreshToken

\* prisma.session.findUnique({ where: { refreshToken } }): set of 0 or 1 rows
FindSessionByRefresh(ss, refreshToken) ==
  {s \in ss : s.refreshToken = refreshToken}

\* speakeasy counter of an instant, and the code of a secret at a counter
TotpCounter(t) == t \div TotpStepMs
TotpCode(secret, counter) == [secret |-> secret, counter |-> counter]
BadCode == [secret |-> <<"none">>, counter |-> 0]

\* verify2FAToken accepting only the code of the current step
verify2FAToken_NoDrift(secret, token, t) ==
  token = TotpCode(secret, TotpCounter(t))

\* AuthService.verify2FAToken: counter - window .. counter + window
verify2FAToken(secret, token, t) ==
  \E c \in (TotpCounter(t) - TotpWindow)..(TotpCounter(t) + TotpWindow) :
    token = TotpCode(secret, c)

(***************************************************************************)
(* Tables                                                                  *)
(***************************************************************************)
UserIds == DOMAIN users

\* FindUserByEmail looking only among the verified users
FindUserByEmail_VerifiedOnly(email) ==
  {i \in UserIds : users[i].email = email /\ users[i].emailVerified}

\* prisma.user.findUnique({ where: { email } })
FindUserByEmail(email) == {i \in UserIds : users[i].email = email}

\* the secret enrolled for a user (base32 string of generate2FASecret)
SecretOf(id) == <<"totp", id>>

\* AuditRow that does not record the acting user
AuditRow_Anonymous(userId, action) == [userId |-> 0, action |-> action]

\* prisma.auditLog.create
AuditRow(userId, action) == [userId |-> userId, action |-> action]

\* response record; optional values are sequences of length 0 or 1
Response(op, arg, code, msg, userId, tokens, tempToken) ==
  [op |-> op, arg |-> arg, code |-> code, msg |-> msg, userId |-> userId,
   tokens |-> tokens, tempToken |-> tempToken, email |-> ""]

\* no call in progress
NoCall == [fn |-> "none"]

\* the tables and the clock after start-up
Idle ==
  /\ users = <<>>
  /\ sessions = {}
  /\ nextSessionId = 1
  /\ auditLog = <<>>
  /\ mailbox = {}
  /\ issued = {}
  /\ now = 0
  /\ last = Response("init", <<>>, 0, "", 0, <<>>, <<>>)
  /\ rotated = {}
  /\ everStored = {}
  /\ procs = <<>>
  /\ tempTokens = {}

Init == Idle /\ call = NoCall

\* errorHandler: status of an error that was not built by createError
\* (jsonwebtoken errors in the middleware, Prisma errors)
ErrorStatus(kind) ==
  IF kind \in {"JsonWebTokenError", "TokenExpiredError"} THEN 401 ELSE 500

\* tokens a client can present: what it was handed, or a made-up string
Presentable == issued \cup {Garbage}

\* codes a client can type: the code of an authenticator at some instant
TypedCodes ==
  {TotpCode(SecretOf(i), TotpCounter(t)) : i \in UserIds, t \in Instants}
    \cup {BadCode}

(***************************************************************************)
(* Controllers: authController.ts                                          *)
(***************************************************************************)
\* UsersAfterSendFailure undoing the insert
UsersAfterSendFailure_RolledBack(user) == users

\* the User table when sendVerificationEmail throws: the row created at
\* authController.ts:25 stays, nothing undoes it
UsersAfterSendFailure(user) == Append(users, user)

\* POST /api/auth/register; sendOk: whether the SMTP transport delivers
Register(email, password, sendOk) ==
  LET id == Len(users) + 1
      user == [id |-> id, email |-> email,
               passwordHash |-> hashPassword(password),
               role |-> "CUSTOMER", status |-> "PENDING",
               emailVerified |-> FALSE, twoFactorEnabled |-> FALSE,
               twoFactorSecret |-> <<>>, lastLoginAt |-> -1]
      verificationToken == generateTokens(PayloadOf(user), now).accessToken
  IN
  IF FindUserByEmail(email) # {} THEN
    /\ last' = Response("register", <<email, sendOk>>, 409,
                        "A user with this email already exists", 0, <<>>, <<>>)
    /\ UNCHANGED <<users, sessions, nextSessionId, auditLog, mailbox, issued,
                   now, rotated, everStored, procs, tempTokens, call>>
  ELSE IF ~sendOk THEN
    /\ users' = UsersAfterSendFailure(user)
    /\ last' = Response("register", <<email, sendOk>>, 500, "Failed to send email",
                        0, <<>>, <<>>)
    /\ UNCHANGED <<sessions, nextSessionId, auditLog, mailbox, issued, now,
                   rotated, everStored, procs, tempTokens, call>>
  ELSE
    /\ users' = Append(users, user)
    /\ mailbox' = mailbox \cup {[to |-> email, token |-> verificationToken]}
    /\ issued' = issued \cup {verificationToken}
    /\ auditLog' = Append(auditLog, AuditRow(id, "USER_REGISTERED"))
    /\ last' = Response("register", <<email, sendOk>>, 201, "Registration successful",
                        id, <<>>, <<>>)
    /\ UNCHANGED <<sessions, nextSessionId, now, rotated, everStored, procs,
                   tempTokens, call>>

\* the status gate of login (authController.ts:101-108): the error message,
\* or "ok"
LoginStatusCheck(user) ==
  IF user.status = "SUSPENDED" THEN "Account has been suspended"
  ELSE IF user.status = "TERMINATED" THEN "Account has been terminated"
  ELSE "ok"

\* POST /api/auth/login
Login(email, password) ==
  LET found == FindUserByEmail(email) IN
  IF found = {} THEN
    /\ last' = Response("login", <<email, password>>, 401, "Invalid email or password",
                        0, <<>>, <<>>)
    /\ UNCHANGED <<users, sessions, nextSessionId, auditLog, mailbox, issued,
                   now, rotated, everStored, procs, tempTokens, call>>
  ELSE
    LET id == CHOOSE i \in found : TRUE
        user == users[id]
        tokens == generateTokens(PayloadOf(user), now)
    IN
    IF ~comparePassword(password, user.passwordHash) THEN
      /\ last' = Response("login", <<email, password>>, 401, "Invalid email or password",
                          0, <<>>, <<>>)
      /\ UNCHANGED <<users, sessions, nextSessionId, auditLog, mailbox, issued,
                     now, rotated, everStored, procs, tempTokens, call>>
    ELSE IF LoginStatusCheck(user) # "ok" THEN
      /\ last' = Response("login", <<email, password>>, 403, LoginStatusCheck(user),
                          0, <<>>, <<>>)
      /\ UNCHANGED <<users, sessions, nextSessionId, auditLog, mailbox, issued,
                     now, rotated, everStored, procs, tempTokens, call>>
    ELSE IF ~CanCreateSession(sessions, tokens) THEN
      \* storeSession throws: unique constraint on Session.refreshToken
      /\ last' = Response("login", <<email, password>>, ErrorStatus("PrismaError"),
                          "Unique constraint failed", 0, <<>>, <<>>)
      /\ UNCHANGED <<users, sessions, nextSessionId, auditLog, mailbox, issued,
                     now, rotated, everStored, procs, tempTokens, call>>
    ELSE
      /\ nextSessionId <= MaxSessionId
      /\ sessions' = sessions \cup {SessionRow(nextSessionId, id, tokens, now)}
      /\ nextSessionId' = nextSessionId + 1
      /\ everStored' = everStored \cup {tokens.refreshToken}
      /\ users' = [users EXCEPT ![id].lastLoginAt = now]
      /\ auditLog' = Append(auditLog, AuditRow(id, "USER_LOGIN"))
      /\ IF user.twoFactorEnabled
           THEN /\ issued' = issued \cup {tokens.accessToken}
                /\ tempTokens' = tempTokens \cup {tokens.accessToken}
                /\ last' = Response("login", <<email, password>>, 200,
                             "Login successful. Please enter your 2FA code.",
                             id, <<>>, <<tokens.accessToken>>)
           ELSE /\ issued' = issued \cup {tokens.accessToken, tokens.refreshToken}
                /\ UNCHANGED tempTokens
                /\ last' = Response("login", <<email, password>>, 200, "Login successful",
                             id, <<tokens>>, <<>>)
      /\ UNCHANGED <<mailbox, now, rotated, procs, call>>

\* POST /api/auth/verify-2fa
Verify2FA(token, tempToken) ==
  LET id == tempToken.userId
      fail(code, msg) ==
        /\ last' = Response("verify-2fa", <<tempToken, token>>, code, msg, 0, <<>>, <<>>)
        /\ UNCHANGED <<users, sessions, nextSessionId, auditLog, mailbox,
                       issued, now, rotated, everStored, procs, tempTokens,
                       call>>
  IN
  IF verifyAccessToken(tempToken, now) # "ok" THEN
    fail(401, "Invalid or expired temporary token")
  ELSE IF id \notin UserIds \/ users[id].twoFactorSecret = <<>> THEN
    fail(400, "2FA not set up for this account")
  ELSE IF ~verify2FAToken(users[id].twoFactorSecret, token, now) THEN
    fail(401, "Invalid 2FA code")
  ELSE
    LET tokens == generateTokens(PayloadOf(users[id]), now) IN
    IF ~CanCreateSession(sessions, tokens) THEN
      fail(ErrorStatus("PrismaError"), "Unique constraint failed")
    ELSE
      /\ nextSessionId <= MaxSessionId
      /\ sessions' = sessions \cup {SessionRow(nextSessionId, id, tokens, now)}
      /\ nextSessionId' = nextSessionId + 1
      /\ everStored' = everStored \cup {tokens.refreshToken}
      /\ auditLog' = Append(auditLog, AuditRow(id, "2FA_VERIFIED"))
      /\ issued' = issued \cup {tokens.accessToken, tokens.refreshToken}
      /\ last' = Response("verify-2fa", <<tempToken, token>>, 200,
                          "2FA verification successful", id, <<tokens>>, <<>>)
      /\ UNCHANGED <<users, mailbox, now, rotated, procs, tempTokens, call>>

\* AuthService.refreshSession up to its status check: the message of the
\* error thrown, or "ok"; found is the result of session.findUnique
RefreshCheck(refreshToken, found, t) ==
  IF verifyRefreshToken(refreshToken, t) # "ok"
    THEN verifyRefreshToken(refreshToken, t)
  ELSE IF found = {} \/ (\E s \in found : s.refreshExpiresAt < t)
    THEN "Session expired"
  ELSE IF \E s \in found : users[s.userId].status # "ACTIVE"
    THEN "Account is not active"
  ELSE "ok"

\* POST /api/auth/refresh-token: refreshToken -> AuthService.refreshSession
RefreshToken(refreshToken) ==
  LET found == FindSessionByRefresh(sessions, refreshToken)
      check == RefreshCheck(refreshToken, found, now)
      fail(code, msg) ==
        /\ last' = Response("refresh-token", <<refreshToken>>, code, msg,
                            0, <<>>, <<>>)
        /\ UNCHANGED <<users, nextSessionId, auditLog, mailbox, issued, now,
                       rotated, everStored, procs, tempTokens, call>>
  IN
  IF check # "ok" THEN
    /\ fail(401, check)
    /\ UNCHANGED sessions
  ELSE
    LET newTokens == generateTokens([userId |-> refreshToken.userId,
                                     email |-> refreshToken.email,
                                     role |-> refreshToken.role], now)
        afterDelete == sessions \ found
    IN
    IF ~CanCreateSession(afterDelete, newTokens) THEN
      \* the old row is gone, storeSession throws
      /\ fail(ErrorStatus("PrismaError"), "Unique constraint failed")
      /\ sessions' = afterDelete
    ELSE
      /\ nextSessionId <= MaxSessionId
      /\ sessions' = afterDelete \cup
           {SessionRow(nextSessionId, refreshToken.userId, newTokens, now)}
      /\ nextSessionId' = nextSessionId + 1
      /\ everStored' = everStored \cup {newTokens.refreshToken}
      /\ rotated' = rotated \cup {refreshToken}
      /\ issued' = issued \cup {newTokens.accessToken, newTokens.refreshToken}
      /\ last' = Response("refresh-token", <<refreshToken>>, 200,
                          "Token refreshed successfully", refreshToken.userId,
                          <<newTokens>>, <<>>)
      /\ UNCHANGED <<users, auditLog, mailbox, now, procs, tempTokens, call>>

\* AlreadyVerified that never recognises a verified user
AlreadyVerified_Never(user) == FALSE

\* the early return of verifyEmail (authController.ts:314-320)
AlreadyVerified(user) == user.emailVerified

\* POST /api/auth/verify-email
VerifyEmail(token) ==
  LET id == token.userId
      reply(code, msg) ==
        /\ last' = Response("verify-email", <<token>>, code, msg, 0, <<>>, <<>>)
        /\ UNCHANGED <<sessions, nextSessionId, mailbox, issued, now, rotated,
                       everStored, procs, tempTokens, call>>
  IN
  IF verifyAccessToken(token, now) # "ok" THEN
    /\ reply(401, verifyAccessToken(token, now))
    /\ UNCHANGED <<users, auditLog>>
  ELSE IF id \notin UserIds THEN
    /\ reply(400, "Invalid verification token")
    /\ UNCHANGED <<users, auditLog>>
  ELSE IF AlreadyVerified(users[id]) THEN
    /\ reply(200, "Email already verified")
    /\ UNCHANGED <<users, auditLog>>
  ELSE
    /\ users' = [users EXCEPT ![id].emailVerified = TRUE,
                              ![id].status = "ACTIVE"]
    /\ auditLog' = Append(auditLog, AuditRow(id, "EMAIL_VERIFIED"))
    /\ reply(200, "Email verified successfully")

(***************************************************************************)
(* Middleware: middleware/auth.ts                                          *)
(***************************************************************************)
\* AccountCheck without its status comparison
AccountCheck_NoStatus(user) ==
  IF ~user.emailVerified THEN "Email not verified" ELSE "ok"

\* AccountCheck comparing with the status value the credential store holds
AccountCheck_UpperCase(user) ==
  IF user.status # "ACTIVE" THEN "Account is not active"
  ELSE IF ~user.emailVerified THEN "Email not verified"
  ELSE "ok"

\* the account gate of authenticate (auth.ts:48-54): message or "ok"
AccountCheck(user) ==
  IF user.status # "active" THEN "Account is not active"
  ELSE IF ~user.emailVerified THEN "Email not verified"
  ELSE "ok"

\* authenticate: bearer is the Authorization header, a sequence of 0 or 1
\* tokens; the result carries the identity attached to the request (0: none)
authenticate(bearer, t) ==
  IF bearer = <<>> THEN
    [pass |-> FALSE, code |-> 401, msg |-> "Access token required", userId |-> 0]
  ELSE IF jwtVerify(bearer[1], JWT_SECRET, t) # "ok" THEN
    [pass |-> FALSE, code |-> ErrorStatus(jwtVerify(bearer[1], JWT_SECRET, t)),
     msg |-> jwtVerify(bearer[1], JWT_SECRET, t), userId |-> 0]
  ELSE IF bearer[1].userId \notin UserIds THEN
    [pass |-> FALSE, code |-> 401, msg |-> "User not found", userId |-> 0]
  ELSE IF AccountCheck(users[bearer[1].userId]) # "ok" THEN
    [pass |-> FALSE, code |-> 401,
     msg |-> AccountCheck(users[bearer[1].userId]), userId |-> 0]
  ELSE
    [pass |-> TRUE, code |-> 200, msg |-> "ok", userId |-> bearer[1].userId]

\* OptionalAccountOk comparing with the status value the store holds
OptionalAccountOk_UpperCase(user) ==
  user.status = "ACTIVE" /\ user.emailVerified

\* the condition under which optionalAuth attaches the user (auth.ts:112)
OptionalAccountOk(user) ==
  user.status = "active" /\ user.emailVerified

\* optionalAuth: always calls next() without an error; userId is the
\* identity attached to the request (0: none)
optionalAuth(bearer, t) ==
  IF bearer = <<>> THEN
    [pass |-> TRUE, code |-> 200, msg |-> "ok", userId |-> 0]
  ELSE IF jwtVerify(bearer[1], JWT_SECRET, t) # "ok" THEN
    [pass |-> TRUE, code |-> 200, msg |-> "ok", userId |-> 0]
  ELSE IF /\ bearer[1].userId \in UserIds
          /\ OptionalAccountOk(users[bearer[1].userId]) THEN
    [pass |-> TRUE, code |-> 200, msg |-> "ok", userId |-> bearer[1].userId]
  ELSE
    [pass |-> TRUE, code |-> 200, msg |-> "ok", userId |-> 0]

\* a request to a public endpoint behind optionalAuth
OptionalAuth(bearer) ==
  LET auth == optionalAuth(bearer, now) IN
  /\ last' = Response("optional-auth", bearer, auth.code, auth.msg,
                      auth.userId, <<>>, <<>>)
  /\ UNCHANGED <<users, sessions, nextSessionId, auditLog, mailbox, issued,
                 now, rotated, everStored, procs, tempTokens, call>>

\* GET /api/auth/profile: authenticate, then getProfile
GetProfile(bearer) ==
  LET auth == authenticate(bearer, now) IN
  /\ IF ~auth.pass
       THEN last' = [Response("profile", bearer, auth.code, auth.msg, 0,
                              <<>>, <<>>) EXCEPT !.email = ""]
       ELSE last' = [Response("profile", bearer, 200, "ok", auth.userId,
                              <<>>, <<>>)
                       EXCEPT !.email = users[auth.userId].email]
  /\ UNCHANGED <<users, sessions, nextSessionId, auditLog, mailbox, issued,
                 now, rotated, everStored, procs, tempTokens, call>>

\* POST /api/auth/logout: authenticate, then logout -> revokeSession
Logout(bearer) ==
  LET auth == authenticate(bearer, now) IN
  IF ~auth.pass THEN
    /\ last' = Response("logout", bearer, auth.code, auth.msg, 0, <<>>, <<>>)
    /\ UNCHANGED <<users, sessions, nextSessionId, auditLog, mailbox, issued,
                   now, rotated, everStored, procs, tempTokens, call>>
  ELSE
    /\ sessions' = {s \in sessions : s.token # bearer[1]}
    /\ auditLog' = Append(auditLog, AuditRow(auth.userId, "USER_LOGOUT"))
    /\ last' = Response("logout", bearer, 200, "Logout successful",
                        auth.userId, <<>>, <<>>)
    /\ UNCHANGED <<users, nextSessionId, mailbox, issued, now, rotated,
                   everStored, procs, tempTokens, call>>

(***************************************************************************)
(* Environment                                                             *)
(***************************************************************************)
\* the wall clock advances
Tick ==
  /\ \E t \in Instants : t > now /\ now' = t
  /\ last' = Response("tick", <<>>, 0, "", 0, <<>>, <<>>)
  /\ UNCHANGED <<users, sessions, nextSessionId, auditLog, mailbox, issued,
                 rotated, everStored, procs, tempTokens, call>>

\* an administrator suspends or terminates an account (directly in the
\* credential store: no endpoint implements it)
AdminSetStatus(id, status) ==
  /\ users[id].status # status
  /\ users' = [users EXCEPT ![id].status = status]
  /\ last' = Response("admin-set-status", <<id>>, 0, "", 0, <<>>, <<>>)
  /\ UNCHANGED <<sessions, nextSessionId, auditLog, mailbox, issued, now,
                 rotated, everStored, procs, tempTokens, call>>

\* a user's TOTP enrolment is recorded in the credential store
Enable2FA(id) ==
  /\ ~users[id].twoFactorEnabled
  /\ users' = [users EXCEPT ![id].twoFactorEnabled = TRUE,
                            ![id].twoFactorSecret = SecretOf(id)]
  /\ last' = Response("enable-2fa", <<id>>, 0, "", 0, <<>>, <<>>)
  /\ UNCHANGED <<sessions, nextSessionId, auditLog, mailbox, issued, now,
                 rotated, everStored, procs, tempTokens, call>>

Next ==
  \/ Tick
  \/ \E e \in Emails, sendOk \in BOOLEAN : Register(e, "Passw0rd!", sendOk)
  \/ \E e \in Emails, p \in Passwords : Login(e, p)
  \/ \E c \in TypedCodes, t \in Presentable : Verify2FA(c, t)
  \/ \E t \in Presentable : RefreshToken(t)
  \/ \E t \in Presentable : VerifyEmail(t)
  \/ \E b \in {<<>>} \cup {<<t>> : t \in Presentable} : GetProfile(b)
  \/ \E b \in {<<>>} \cup {<<t>> : t \in Presentable} : Logout(b)
  \/ \E b \in {<<>>} \cup {<<t>> : t \in Presentable} : OptionalAuth(b)
  \/ \E i \in UserIds, s \in {"SUSPENDED", "TERMINATED"} : AdminSetStatus(i, s)
  \/ \E i \in UserIds : Enable2FA(i)

Spec == Init /\ [][Next]_vars

(***************************************************************************)
(* Two refresh-token requests in flight: AuthService.refreshSession runs   *)
(* up to each await, and the database executes one statement at a time.    *)
(***************************************************************************)
RaceProcs == {1, 2}

\* both requests arrive with the refresh token of a live session
RaceBegin(refreshToken) ==
  /\ procs = <<>>
  /\ RefreshCheck(refreshToken, FindSessionByRefresh(sessions, refreshToken),
                  now) = "ok"
  /\ procs' = [p \in RaceProcs |->
                 [pc |-> "lookup", refreshToken |-> refreshToken, found |-> {},
                  code |-> 0, msg |-> "", tokens |-> <<>>]]
  /\ UNCHANGED <<users, sessions, nextSessionId, auditLog, mailbox, issued,
                 now, last, rotated, everStored, tempTokens, call>>

\* the request is answered
RaceDone(p, code, msg, tokens) ==
  /\ procs' = [procs EXCEPT ![p].pc = "done", ![p].code = code,
                            ![p].msg = msg, ![p].tokens = tokens]
  /\ last' = Response("refresh-token", <<procs[p].refreshToken>>, code, msg,
                      0, tokens, <<>>)

\* authService.ts:104-117: verify, session.findUnique, the two checks
RaceLookup(p) ==
  LET refreshToken == procs[p].refreshToken
      found == FindSessionByRefresh(sessions, refreshToken)
      check == RefreshCheck(refreshToken, found, now)
  IN
  /\ procs # <<>>
  /\ procs[p].pc = "lookup"
  /\ IF check # "ok"
       THEN RaceDone(p, 401, check, <<>>)
       ELSE /\ procs' = [procs EXCEPT ![p].pc = "delete", ![p].found = found]
            /\ UNCHANGED last
  /\ UNCHANGED <<users, sessions, nextSessionId, auditLog, mailbox, issued,
                 now, rotated, everStored, tempTokens, call>>

\* authService.ts:120: session.delete({ where: { id } }) throws when the row
\* is gone
RaceDelete(p) ==
  /\ procs # <<>>
  /\ procs[p].pc = "delete"
  /\ IF \A s \in procs[p].found : \A r \in sessions : r.id # s.id
       THEN /\ RaceDone(p, ErrorStatus("PrismaError"),
                        "Record to delete does not exist", <<>>)
            /\ UNCHANGED sessions
       ELSE /\ sessions' = {r \in sessions :
                              \A s \in procs[p].found : r.id # s.id}
            /\ procs' = [procs EXCEPT ![p].pc = "create"]
            /\ UNCHANGED last
  /\ UNCHANGED <<users, nextSessionId, auditLog, mailbox, issued, now,
                 rotated, everStored, tempTokens, call>>

\* authService.ts:123-132: generateTokens, storeSession, return
RaceCreate(p) ==
  LET refreshToken == procs[p].refreshToken
      newTokens == generateTokens([userId |-> refreshToken.userId,
                                   email |-> refreshToken.email,
                                   role |-> refreshToken.role], now)
  IN
  /\ procs # <<>>
  /\ procs[p].pc = "create"
  /\ IF ~CanCreateSession(sessions, newTokens)
       THEN /\ RaceDone(p, ErrorStatus("PrismaError"),
                        "Unique constraint failed", <<>>)
            /\ UNCHANGED <<sessions, nextSessionId, issued, rotated,
                           everStored>>
       ELSE /\ nextSessionId <= MaxSessionId
            /\ sessions' = sessions \cup
                 {SessionRow(nextSessionId, refreshToken.userId, newTokens, now)}
            /\ nextSessionId' = nextSessionId + 1
            /\ everStored' = everStored \cup {newTokens.refreshToken}
            /\ rotated' = rotated \cup {refreshToken}
            /\ issued' = issued \cup
                 {newTokens.accessToken, newTokens.refreshToken}
            /\ RaceDone(p, 200, "Token refreshed successfully", <<newTokens>>)
  /\ UNCHANGED <<users, auditLog, mailbox, now, tempTokens, call>>

RaceNext ==
  \/ Tick
  \/ \E e \in Emails, sendOk \in BOOLEAN : Register(e, "Passw0rd!", sendOk)
  \/ \E e \in Emails, p \in Passwords : Login(e, p)
  \/ \E t \in Presentable : VerifyEmail(t)
  \/ \E t \in Presentable : RaceBegin(t)
  \/ \E p \in RaceProcs : RaceLookup(p)
  \/ \E p \in RaceProcs : RaceDelete(p)
  \/ \E p \in RaceProcs : RaceCreate(p)

SpecRace == Init /\ [][RaceNext]_vars

(***************************************************************************)
(* Sessions that outlive their refresh lifetime                            *)
(***************************************************************************)
\* instants at and past the refresh lifetime of a pair signed in second 0
LateInstants == {604800000, 604801000}

\* the wall clock jumps past the refresh lifetime
TickLate ==
  /\ \E t \in LateInstants : t > now /\ now' = t
  /\ last' = Response("tick", <<>>, 0, "", 0, <<>>, <<>>)
  /\ UNCHANGED <<users, sessions, nextSessionId, auditLog, mailbox, issued,
                 rotated, everStored, procs, tempTokens, call>>

ExpiryNext ==
  \/ Tick
  \/ TickLate
  \/ \E e \in Emails, sendOk \in BOOLEAN : Register(e, "Passw0rd!", sendOk)
  \/ \E e \in Emails, p \in Passwords : Login(e, p)
  \/ \E t \in Presentable : VerifyEmail(t)
  \/ \E t \in Presentable : RefreshToken(t)

SpecExpiry == Init /\ [][ExpiryNext]_vars

(***************************************************************************)
(* The role gate: authorize(...roles) applied to a request                 *)
(***************************************************************************)
Roles == {"CUSTOMER", "ADMIN", "SUPER_ADMIN"}

\* the roles of the admin router (routes/admin.ts:8)
AdminRoles == {"ADMIN", "SUPER_ADMIN"}

\* req.user as authenticate leaves it: nothing, or an identity
Identities ==
  {<<>>} \cup {<<[id |-> i, role |-> r, status |-> "ACTIVE"]>> :
                 i \in 1..2, r \in Roles}

\* authorize letting every identified request pass
authorize_AnyRole(roles, reqUser) ==
  IF reqUser = <<>>
    THEN [pass |-> FALSE, code |-> 401, msg |-> "Authentication required"]
    ELSE [pass |-> TRUE, code |-> 200, msg |-> "ok"]

\* authorize(...roles)(req, res, next)
authorize(roles, reqUser) ==
  IF reqUser = <<>>
    THEN [pass |-> FALSE, code |-> 401, msg |-> "Authentication required"]
  ELSE IF reqUser[1].role \notin roles
    THEN [pass |-> FALSE, code |-> 403, msg |-> "Insufficient permissions"]
  ELSE [pass |-> TRUE, code |-> 200, msg |-> "ok"]

InitAuthorize ==
  /\ Idle
  /\ call \in [fn : {"authorize"}, roles : SUBSET Roles, user : Identities,
               done : {FALSE}, pass : {FALSE}, code : {0}]

\* the gate runs on the request
ApplyAuthorize ==
  /\ call.fn = "authorize"
  /\ ~call.done
  /\ call' = [call EXCEPT !.done = TRUE,
                          !.pass = authorize(call.roles, call.user).pass,
                          !.code = authorize(call.roles, call.user).code]
  /\ UNCHANGED <<users, sessions, nextSessionId, auditLog, mailbox, issued,
                 now, last, rotated, everStored, tempTokens, procs>>

AuthorizeNext == ApplyAuthorize

SpecAuthorize == InitAuthorize /\ [][AuthorizeNext]_vars

(***************************************************************************)
(* The token service under every configuration of the environment          *)
(***************************************************************************)
\* the values process.env.JWT_SECRET / JWT_REFRESH_SECRET may hold
\* ("": unset)
EnvSecrets == {"", "s1", "s2"}

\* the instants at which the pair is issued and verified
TokenInstants == {0, 500, 900000}

\* new AuthService(): throws when a secret is missing, keeps both otherwise
AuthServiceConstructor(envSecret, envRefreshSecret) ==
  IF envSecret = "" \/ envRefreshSecret = ""
    THEN [thrown |-> TRUE, jwtSecret |-> "", jwtRefreshSecret |-> ""]
    ELSE [thrown |-> FALSE, jwtSecret |-> envSecret,
          jwtRefreshSecret |-> envRefreshSecret]

\* generateTokens of a constructed service
generateTokensOf(svc, payload, t) ==
  [accessToken  |-> jwtSign(payload, svc.jwtSecret, jwtExpiresIn, t),
   refreshToken |-> jwtSign(payload, svc.jwtRefreshSecret,
                            jwtRefreshExpiresIn, t)]

\* verifyAccessToken of a constructed service
verifyAccessTokenOf(svc, token, t) ==
  LET r == jwtVerify(token, svc.jwtSecret, t) IN
  IF r = "TokenExpiredError" THEN "Access token expired"
  ELSE IF r = "JsonWebTokenError" THEN "Invalid access token"
  ELSE "ok"

\* verifyRefreshToken of a constructed service
verifyRefreshTokenOf(svc, token, t) ==
  LET r == jwtVerify(token, svc.jwtRefreshSecret, t) IN
  IF r = "TokenExpiredError" THEN "Refresh token expired"
  ELSE IF r = "JsonWebTokenError" THEN "Invalid refresh token"
  ELSE "ok"

InitTokens ==
  /\ Idle
  /\ call \in [fn : {"tokens"}, envSecret : EnvSecrets,
               envRefreshSecret : EnvSecrets, role : Roles,
               stage : {"new"}, svc : {AuthServiceConstructor("", "")},
               tokens : {<<>>}, accessOnRefresh : {""},
               refreshOnAccess : {""}]

\* the service is constructed from the environment
ConstructService ==
  /\ call.fn = "tokens"
  /\ call.stage = "new"
  /\ LET svc == AuthServiceConstructor(call.envSecret, call.envRefreshSecret) IN
     call' = [call EXCEPT !.svc = svc,
                          !.stage = IF svc.thrown THEN "thrown" ELSE "ready"]
  /\ UNCHANGED <<users, sessions, nextSessionId, auditLog, mailbox, issued,
                 now, last, rotated, everStored, tempTokens, procs>>

\* generateTokens issues a pair at an instant
IssueTokens(t) ==
  /\ call.fn = "tokens"
  /\ call.stage = "ready"
  /\ call' = [call EXCEPT
       !.stage = "issued",
       !.tokens = <<generateTokensOf(call.svc,
                      [userId |-> 1, email |-> "a@x.com", role |-> call.role],
                      t)>>]
  /\ now' = t
  /\ UNCHANGED <<users, sessions, nextSessionId, auditLog, mailbox, issued,
                 last, rotated, everStored, tempTokens, procs>>

\* each token of the pair is handed to the other verifier
CrossVerify(t) ==
  /\ call.fn = "tokens"
  /\ call.stage = "issued"
  /\ t >= now
  /\ call' = [call EXCEPT
       !.stage = "verified",
       !.accessOnRefresh =
          verifyAccessTokenOf(call.svc, call.tokens[1].refreshToken, t),
       !.refreshOnAccess =
          verifyRefreshTokenOf(call.svc, call.tokens[1].accessToken, t)]
  /\ now' = t
  /\ UNCHANGED <<users, sessions, nextSessionId, auditLog, mailbox, issued,
                 last, rotated, everStored, tempTokens, procs>>

TokensNext ==
  \/ ConstructService
  \/ \E t \in TokenInstants : IssueTokens(t)
  \/ \E t \in TokenInstants : CrossVerify(t)

SpecTokens == InitTokens /\ [][TokensNext]_vars

(***************************************************************************)
(* The TOTP check at instants around the generation of a code              *)
(***************************************************************************)
\* the instants T0 at which the authenticator shows its code
TotpGenInstants == {90000 + 5000 * k : k \in 0..6} \cup {119999}

\* the distances between T0 and the check
TotpDeltas ==
  {-90000, -89999, -61000, -60001, -60000, -30000, 0,
   30000, 60000, 60001, 61000, 89999, 90000, 120000}

InitTotp ==
  /\ Idle
  /\ call \in [fn : {"totp"}, t0 : TotpGenInstants, stage : {"new"},
               code : {BadCode}, t : {0}, ok : {FALSE}]

\* the authenticator of user 1 shows its code at T0
GenerateCode ==
  /\ call.fn = "totp"
  /\ call.stage = "new"
  /\ call' = [call EXCEPT !.stage = "generated",
                          !.code = TotpCode(SecretOf(1), TotpCounter(call.t0))]
  /\ UNCHANGED <<users, sessions, nextSessionId, auditLog, mailbox, issued,
                 now, last, rotated, everStored, tempTokens, procs>>

\* verify2FAToken is called with that code at T0 + d
CheckCode(d) ==
  /\ call.fn = "totp"
  /\ call.stage = "generated"
  /\ call.t0 + d >= 0
  /\ call' = [call EXCEPT
       !.stage = "checked",
       !.t = call.t0 + d,
       !.ok = verify2FAToken(SecretOf(1), call.code, call.t0 + d)]
  /\ UNCHANGED <<users, sessions, nextSessionId, auditLog, mailbox, issued,
                 now, last, rotated, everStored, tempTokens, procs>>

TotpNext ==
  \/ GenerateCode
  \/ \E d \in TotpDeltas : CheckCode(d)

SpecTotp == InitTotp /\ [][TotpNext]_vars

(***************************************************************************)
(* JavaScript numbers: IEEE 754 doubles, held exactly as naturals in units *)
(* of 2^-FracBits, written as little-endian bit sequences                  *)
(***************************************************************************)
FracBits == 60
Significand == 53

RECURSIVE NatBits(_)
\* the bits of a natural, lowest first
NatBits(n) == IF n = 0 THEN <<>> ELSE <<n % 2>> \o NatBits(n \div 2)

RECURSIVE BitsNat(_)
\* the natural a (short) bit sequence stands for
BitsNat(b) == IF b = <<>> THEN 0 ELSE b[1] + 2 * BitsNat(Tail(b))

\* without the zero bits at the top
Trim(b) ==
  IF \A i \in 1..Len(b) : b[i] = 0 THEN <<>>
  ELSE SubSeq(b, 1, CHOOSE k \in 1..Len(b) :
                      b[k] = 1 /\ \A i \in (k + 1)..Len(b) : b[i] = 0)

\* the number of zero bits at the bottom
TrailingZeros(b) ==
  IF b = <<>> THEN 0
  ELSE CHOOSE k \in 0..(Len(b) - 1) :
         b[k + 1] = 1 /\ \A i \in 1..k : b[i] = 0

\* bit i of a natural (0 above its top bit)
Bit(b, i) == IF i <= Len(b) THEN b[i] ELSE 0

\* the carry into bit i of a + b: some lower position generates a carry
\* and every position between propagates it
Carry(a, b, i) ==
  IF \E j \in 1..(i - 1) :
       /\ Bit(a, j) = 1 /\ Bit(b, j) = 1
       /\ \A k \in (j + 1)..(i - 1) : Bit(a, k) + Bit(b, k) >= 1
    THEN 1 ELSE 0

\* exact sum of two naturals
AddBits(a, b) ==
  LET n == (IF Len(a) >= Len(b) THEN Len(a) ELSE Len(b)) + 1 IN
  Trim([i \in 1..n |-> (Bit(a, i) + Bit(b, i) + Carry(a, b, i)) % 2])

\* times 2^k, and the part at and above bit k
ShiftLeft(b, k) == IF b = <<>> THEN <<>> ELSE [i \in 1..k |-> 0] \o b
ShiftRight(b, k) == IF Len(b) <= k THEN <<>> ELSE SubSeq(b, k + 1, Len(b))

RECURSIVE MulBits(_, _)
\* exact product of two naturals (shift and add over the bits of a)
MulBits(a, b) ==
  IF a = <<>> \/ b = <<>> THEN <<>>
  ELSE AddBits(IF a[1] = 1 THEN b ELSE <<>>,
               ShiftLeft(MulBits(Tail(a), b), 1))

RECURSIVE Pow2Mod(_, _)
\* 2^k modulo d
Pow2Mod(k, d) ==
  IF k = 0 THEN 1 % d
  ELSE IF k % 2 = 0 THEN (Pow2Mod(k \div 2, d) * Pow2Mod(k \div 2, d)) % d
  ELSE (2 * Pow2Mod(k - 1, d)) % d

RECURSIVE RangeRem(_, _, _, _)
\* the natural made of the bits lo..hi of b, modulo d
RangeRem(b, lo, hi, d) ==
  IF lo > hi THEN 0
  ELSE IF lo = hi THEN b[lo] % d
  ELSE LET mid == (lo + hi) \div 2 IN
       (RangeRem(b, mid + 1, hi, d) * Pow2Mod(mid - lo + 1, d)
          + RangeRem(b, lo, mid, d)) % d

\* remainder of the bits i..Len(b) of b divided by d
DivRem(b, i, d) == RangeRem(b, i, Len(b), d)

\* quotient of the long division of b by a small d
DivBits(b, d) ==
  Trim([i \in 1..Len(b) |-> (2 * DivRem(b, i + 1, d) + b[i]) \div d])

\* round to nearest, ties to even, at 53 significant bits; sticky tells
\* that the exact value lies above b by less than one unit
RoundToDouble(b, sticky) ==
  IF Len(b) <= Significand THEN b
  ELSE LET drop == Len(b) - Significand
           kept == [i \in 1..Len(b) |-> IF i <= drop THEN 0 ELSE b[i]]
           low  == sticky \/ \E i \in 1..(drop - 1) : b[i] = 1
           up   == b[drop] = 1 /\ (low \/ b[drop + 1] = 1)
       IN IF up THEN ShiftLeft(AddBits(ShiftRight(b, drop), <<1>>), drop)
                ELSE kept

\* an integer as a number, and the operators + and * of the language
DblOfInt(n) == ShiftLeft(NatBits(n), FracBits)
DblAdd(x, y) ==
  LET z == IF TrailingZeros(x) <= TrailingZeros(y)
             THEN TrailingZeros(x) ELSE TrailingZeros(y)
  IN IF x = <<>> THEN y
     ELSE IF y = <<>> THEN x
     ELSE RoundToDouble(
            ShiftLeft(AddBits(ShiftRight(x, z), ShiftRight(y, z)), z),
            FALSE)
DblMul(x, y) ==
  LET zx == TrailingZeros(x)
      zy == TrailingZeros(y)
      mx == ShiftRight(x, zx)
      my == ShiftRight(y, zy)
      p  == IF Len(mx) <= Len(my) THEN MulBits(mx, my) ELSE MulBits(my, mx)
  IN ShiftRight(RoundToDouble(ShiftLeft(p, zx + zy), FALSE), FracBits)

\* Number.prototype.toFixed(2): the nearest count of hundredths, the larger
\* one at a tie
toFixed2(x) ==
  LET scaled == MulBits(NatBits(100), x) IN
  BitsNat(ShiftRight(scaled, FracBits))
    + (IF Len(scaled) >= FracBits THEN scaled[FracBits] ELSE 0)

\* Number("h/100"): the double nearest to a decimal with two places
NumberOfHundredths(h) ==
  LET num == ShiftLeft(NatBits(h), FracBits) IN
  RoundToDouble(DivBits(num, 100), DivRem(num, 1, 100) # 0)

\* the literal 0.1
PointOne == NumberOfHundredths(10)

(***************************************************************************)
(* POST /api/vps/calculate-price (routes/vps.ts)                           *)
(***************************************************************************)
MaxPriceCalls == 3

\* request bodies: configurations a client can send (the route validates
\* nothing)
PriceConfigs ==
  [cpuCores : {1, 4}, ramGb : {1, 8}, storageGb : {10, 41, 100},
   operatingSystem : {"Ubuntu 22.04 LTS", "Windows Server 2022"}]

\* operatingSystem.includes('Windows')
IncludesWindows(operatingSystem) == operatingSystem = "Windows Server 2022"

\* the same configuration with twice the storage
DoubledStorage(cfg) == [cfg EXCEPT !.storageGb = 2 * cfg.storageGb]

\* the data of the response of the handler
calculatePrice(body) ==
  LET cpuPrice     == DblMul(DblOfInt(body.cpuCores), DblOfInt(5))
      ramPrice     == DblMul(DblOfInt(body.ramGb), DblOfInt(4))
      storagePrice == DblMul(DblOfInt(body.storageGb), PointOne)
      osPrice      == IF IncludesWindows(body.operatingSystem)
                        THEN DblOfInt(15) ELSE DblOfInt(0)
      totalPrice   == DblAdd(DblAdd(DblAdd(cpuPrice, ramPrice), storagePrice),
                             osPrice)
  IN [totalPrice |-> NumberOfHundredths(toFixed2(totalPrice)),
      breakdown  |-> [cpu |-> cpuPrice, ram |-> ramPrice,
                      storage |-> storagePrice, operatingSystem |-> osPrice]]

InitPricing ==
  /\ Idle
  /\ call \in [fn : {"price"}, cfg : PriceConfigs, log : {<<>>}]

\* one request: the client's configuration, or the same with twice the
\* storage
CalculatePrice(body) ==
  /\ call.fn = "price"
  /\ Len(call.log) < MaxPriceCalls
  /\ call' = [call EXCEPT !.log = Append(@, [body |-> body,
                                             data |-> calculatePrice(body)])]
  /\ UNCHANGED <<users, sessions, nextSessionId, auditLog, mailbox, issued,
                 now, last, rotated, everStored, tempTokens, procs>>

PricingNext ==
  \E body \in {call.cfg, DoubledStorage(call.cfg)} : CalculatePrice(body)

SpecPricing == InitPricing /\ [][PricingNext]_vars

(***************************************************************************)
(* scripts/deploy-production.sh: one run of the script                     *)
(***************************************************************************)
\* echo to stderr, then exit 1: the shell ends here, and exit runs no ERR
\* trap
prod_error(run, step) ==
  [run EXCEPT !.pc = "exited", !.exitCode = 1, !.failedAt = step]

\* send_deployment_notification: Slack when the webhook is configured,
\* PagerDuty for a failure in production
send_deployment_notification(run, status) ==
  IF run.pc = "exited" THEN run
  ELSE [run EXCEPT !.notified =
          Append(@, [status    |-> status,
                     slack     |-> run.slackWebhook,
                     pagerDuty |-> (status = "failure"
                                      /\ run.environment = "production")])]

\* rollback_deployment: kubectl rollout undo of the component
rollback_deployment(run) ==
  IF run.pc = "exited" THEN run ELSE [run EXCEPT !.rollback = TRUE]

\* catch_error: prod_error comes first, and it exits; the rollback is
\* guarded by "$2" (the line number) being "production"
catch_error(run, step, lineNumber) ==
  LET failed == prod_error(run, step)
      rolled == IF lineNumber = "production"
                  THEN rollback_deployment(failed) ELSE failed
  IN send_deployment_notification(rolled, "failure")

\* a command that returns non-zero under set -e: the ERR trap is set
\* without errtrace, so it is not inherited by functions, and every command
\* of the run is inside main_production
FailedCommand(run, step, inFunction, lineNumber) ==
  IF inFunction
    THEN [run EXCEPT !.pc = "exited", !.exitCode = 1, !.failedAt = step]
    ELSE catch_error(run, step, lineNumber)

InitDeploy ==
  /\ Idle
  /\ call \in [fn : {"deploy"}, component : {"backend", "frontend"},
               environment : {"production", "staging"},
               branch : {"main", "feature"}, requiredVars : BOOLEAN,
               slackWebhook : BOOLEAN,
               pc : {"validate"}, failedAt : {""}, exitCode : {-1},
               rollback : {FALSE}, notified : {<<>>}]

\* the run is at a step of main_production; nothing else changes
AtStep(step) ==
  /\ call.fn = "deploy"
  /\ call.pc = step
  /\ UNCHANGED <<users, sessions, nextSessionId, auditLog, mailbox, issued,
                 now, last, rotated, everStored, tempTokens, procs>>

\* validate_production_deployment: branch, required variables, state of the
\* previous deployment
ValidateProduction(previousOk) ==
  /\ AtStep("validate")
  /\ call' = IF call.branch # "main" \/ ~call.requiredVars \/ ~previousOk
               THEN prod_error(call, "validate")
               ELSE [call EXCEPT !.pc = "backup"]

\* kubectl get deployment > backup file
BackupDeployment(ok) ==
  /\ AtStep("backup")
  /\ call' = IF ok THEN [call EXCEPT !.pc = "pull"]
             ELSE FailedCommand(call, "backup", TRUE, "227")

\* docker pull of the image
PullImage(ok) ==
  /\ AtStep("pull")
  /\ call' = IF ok THEN [call EXCEPT !.pc = "apply"]
             ELSE prod_error(call, "pull")

\* blue_green_deployment: kubectl apply of the new colour
ApplyNewColour(ok) ==
  /\ AtStep("apply")
  /\ call' = IF ok THEN [call EXCEPT !.pc = "rollout"]
             ELSE FailedCommand(call, "apply", TRUE, "84")

\* blue_green_deployment: kubectl rollout status of the new colour
RolloutNewColour(ok) ==
  /\ AtStep("rollout")
  /\ call' = IF ok THEN [call EXCEPT !.pc = "smoke"]
             ELSE FailedCommand(call, "rollout", TRUE, "91")

\* blue_green_deployment: run_smoke_tests
SmokeTests(ok) ==
  /\ AtStep("smoke")
  /\ call' = IF ok THEN [call EXCEPT !.pc = "switch"]
             ELSE prod_error(call, "smoke")

\* blue_green_deployment: kubectl patch of the service selector
SwitchService(ok) ==
  /\ AtStep("switch")
  /\ call' = IF ok THEN [call EXCEPT !.pc = "health"]
             ELSE FailedCommand(call, "switch", TRUE, "101")

\* blue_green_deployment: health_check after the switch
HealthCheckAfterSwitch(ok) ==
  /\ AtStep("health")
  /\ call' = IF ok THEN [call EXCEPT !.pc = "cleanup"]
             ELSE prod_error(call, "health")

\* blue_green_deployment: kubectl delete of the old colour
CleanUpOldColour(ok) ==
  /\ AtStep("cleanup")
  /\ call' = IF ok THEN [call EXCEPT !.pc = "performance"]
             ELSE FailedCommand(call, "cleanup", TRUE, "113")

\* validate_performance, then the success notification and the end of
\* main_production
ValidatePerformance(ok) ==
  /\ AtStep("performance")
  /\ call' = IF ok
               THEN [send_deployment_notification(call, "success")
                       EXCEPT !.pc = "done", !.exitCode = 0]
               ELSE prod_error(call, "performance")

DeployNext ==
  \/ \E ok \in BOOLEAN : ValidateProduction(ok)
  \/ \E ok \in BOOLEAN : BackupDeployment(ok)
  \/ \E ok \in BOOLEAN : PullImage(ok)
  \/ \E ok \in BOOLEAN : ApplyNewColour(ok)
  \/ \E ok \in BOOLEAN : RolloutNewColour(ok)
  \/ \E ok \in BOOLEAN : SmokeTests(ok)
  \/ \E ok \in BOOLEAN : SwitchService(ok)
  \/ \E ok \in BOOLEAN : HealthCheckAfterSwitch(ok)
  \/ \E ok \in BOOLEAN : CleanUpOldColour(ok)
  \/ \E ok \in BOOLEAN : ValidatePerformance(ok)

SpecDeploy == InitDeploy /\ [][DeployNext]_vars

(***************************************************************************)
(* Two register requests in flight with the same email: the handler runs   *)
(* up to each await, and the database executes one statement at a time.    *)
(***************************************************************************)
\* both requests arrive
RegisterRaceBegin(email, passwords) ==
  /\ procs = <<>>
  /\ procs' = [p \in RaceProcs |->
                 [pc |-> "lookup", email |-> email, password |-> passwords[p],
                  id |-> 0, code |-> 0, msg |-> ""]]
  /\ UNCHANGED <<users, sessions, nextSessionId, auditLog, mailbox, issued,
                 now, last, rotated, everStored, tempTokens, call>>

\* the request is answered
RegisterRaceDone(p, code, msg, id) ==
  /\ procs' = [procs EXCEPT ![p].pc = "done", ![p].code = code,
                            ![p].msg = msg]
  /\ last' = Response("register", <<procs[p].email, p>>, code, msg, id,
                      <<>>, <<>>)

\* authController.ts:13-19: user.findUnique by email, 409 when found
RegisterRaceLookup(p) ==
  /\ procs # <<>>
  /\ procs[p].pc = "lookup"
  /\ IF FindUserByEmail(procs[p].email) # {}
       THEN RegisterRaceDone(p, 409, "A user with this email already exists", 0)
       ELSE /\ procs' = [procs EXCEPT ![p].pc = "create"]
            /\ UNCHANGED last
  /\ UNCHANGED <<users, sessions, nextSessionId, auditLog, mailbox, issued,
                 now, rotated, everStored, tempTokens, call>>

\* authController.ts:21-45: hashPassword, then user.create, which throws
\* when the unique email is taken
RegisterRaceCreate(p) ==
  LET id == Len(users) + 1
      user == [id |-> id, email |-> procs[p].email,
               passwordHash |-> hashPassword(procs[p].password),
               role |-> "CUSTOMER", status |-> "PENDING",
               emailVerified |-> FALSE, twoFactorEnabled |-> FALSE,
               twoFactorSecret |-> <<>>, lastLoginAt |-> -1]
  IN
  /\ procs # <<>>
  /\ procs[p].pc = "create"
  /\ IF \E i \in UserIds : users[i].email = procs[p].email
       THEN /\ RegisterRaceDone(p, ErrorStatus("PrismaError"),
                                "Unique constraint failed", 0)
            /\ UNCHANGED users
       ELSE /\ users' = Append(users, user)
            /\ procs' = [procs EXCEPT ![p].pc = "send", ![p].id = id]
            /\ UNCHANGED last
  /\ UNCHANGED <<sessions, nextSessionId, auditLog, mailbox, issued, now,
                 rotated, everStored, tempTokens, call>>

\* authController.ts:47-80: verification token, mail, audit entry, 201
RegisterRaceSend(p, sendOk) ==
  LET id == procs[p].id
      verificationToken == generateTokens(PayloadOf(users[id]), now).accessToken
  IN
  /\ procs # <<>>
  /\ procs[p].pc = "send"
  /\ IF ~sendOk
       THEN /\ RegisterRaceDone(p, 500, "Failed to send email", 0)
            /\ UNCHANGED <<mailbox, issued, auditLog>>
       ELSE /\ mailbox' = mailbox \cup
                 {[to |-> procs[p].email, token |-> verificationToken]}
            /\ issued' = issued \cup {verificationToken}
            /\ auditLog' = Append(auditLog, AuditRow(id, "USER_REGISTERED"))
            /\ RegisterRaceDone(p, 201, "Registration successful", id)
  /\ UNCHANGED <<users, sessions, nextSessionId, now, rotated, everStored,
                 tempTokens, call>>

RegisterRaceNext ==
  \/ Tick
  \/ \E e \in Emails, pw \in [RaceProcs -> Passwords] : RegisterRaceBegin(e, pw)
  \/ \E p \in RaceProcs : RegisterRaceLookup(p)
  \/ \E p \in RaceProcs : RegisterRaceCreate(p)
  \/ \E p \in RaceProcs, sendOk \in BOOLEAN : RegisterRaceSend(p, sendOk)

SpecRegisterRace == Init /\ [][RegisterRaceNext]_vars

(***************************************************************************)
(* Requests one second apart: the same verify-2FA body sent again          *)
(***************************************************************************)
ReplayInstants == {1000, 2000}

\* the wall clock reaches the next second between two requests; the last
\* request and its response stay what they were
SecondPasses ==
  /\ \E t \in ReplayInstants : t > now /\ now' = t
  /\ UNCHANGED <<users, sessions, nextSessionId, auditLog, mailbox, issued,
                 last, rotated, everStored, procs, tempTokens, call>>

ReplayNext ==
  \/ SecondPasses
  \/ \E e \in Emails, sendOk \in BOOLEAN : Register(e, "Passw0rd!", sendOk)
  \/ \E t \in Presentable : VerifyEmail(t)
  \/ \E i \in UserIds : Enable2FA(i)
  \/ \E e \in Emails, p \in Passwords : Login(e, p)
  \/ \E c \in TypedCodes, t \in Presentable : Verify2FA(c, t)

SpecReplay == Init /\ [][ReplayNext]_vars

(***************************************************************************)
(* The client: authReducer and AuthProvider (contexts/AuthContext.tsx)     *)
(***************************************************************************)
\* null, and the values the client holds (a value is a sequence of one)
Null == <<>>
ClientUser == <<[id |-> 1, firstName |-> "A"]>>
ClientTokens == <<"tokens">>
ClientTempToken == <<"tempToken">>

initialState ==
  [user |-> Null, tokens |-> Null, isLoading |-> TRUE,
   isAuthenticated |-> FALSE, requires2FA |-> FALSE, tempToken |-> Null]

\* { ...state.user, ...action.payload }: an object, also when user is null
SpreadUser(user, payload) ==
  IF user = Null THEN <<[id |-> 0, firstName |-> payload.firstName]>>
  ELSE <<[user[1] EXCEPT !.firstName = payload.firstName]>>

authReducer(state, action) ==
  CASE action.type = "AUTH_START" ->
         [state EXCEPT !.isLoading = TRUE]
    [] action.type = "LOGIN_SUCCESS" ->
         [state EXCEPT !.user = action.payload.user,
                       !.tokens = action.payload.tokens,
                       !.isLoading = FALSE,
                       !.isAuthenticated = TRUE,
                       !.requires2FA = FALSE,
                       !.tempToken = Null]
    [] action.type = "2FA_REQUIRED" ->
         [state EXCEPT !.requires2FA = TRUE,
                       !.tempToken = action.payload.tempToken,
                       !.isLoading = FALSE]
    [] action.type = "LOGOUT" ->
         [state EXCEPT !.user = Null, !.tokens = Null, !.isLoading = FALSE,
                       !.isAuthenticated = FALSE, !.requires2FA = FALSE,
                       !.tempToken = Null]
    [] action.type = "UPDATE_USER" ->
         [state EXCEPT !.user = SpreadUser(state.user, action.payload)]
    [] action.type = "SET_LOADING" ->
         [state EXCEPT !.isLoading = action.payload]
    [] action.type = "INIT_AUTH" ->
         [state EXCEPT !.user = action.payload.user,
                       !.tokens = action.payload.tokens,
                       !.isAuthenticated = (action.payload.user # Null),
                       !.isLoading = FALSE]
    [] OTHER -> state

\* the outcomes of a call of authApi
ApiOutcomes == {"success", "requires2FA", "unsuccessful", "error"}

\* the accounts the server answers with
ServerUsers ==
  {<<[id |-> 1, firstName |-> "A"]>>, <<[id |-> 2, firstName |-> "B"]>>}

\* JSON.parse(localStorage.getItem('user') || '{}')
StoredUserOrEmpty(stored) ==
  IF stored.user = Null THEN <<[id |-> 0, firstName |-> ""]>> ELSE stored.user

\* the provider is mounted; the browser holds the cookies and the user of
\* an earlier visit, or not
InitClient ==
  /\ Idle
  /\ call \in [fn : {"client"}, state : {initialState}, pc : {"mounting"},
               stored : [cookies : BOOLEAN, user : {Null, ClientUser}]]

\* the provider's state, in-flight operation and browser storage change;
\* nothing else does
Client(state, pc, stored) ==
  /\ call' = [call EXCEPT !.state = state, !.pc = pc, !.stored = stored]
  /\ UNCHANGED <<users, sessions, nextSessionId, auditLog, mailbox, issued,
                 now, last, rotated, everStored, tempTokens, procs>>

\* setAuthData: cookies, localStorage, LOGIN_SUCCESS
setAuthData(pc, user, tokens) ==
  Client(authReducer(call.state,
           [type |-> "LOGIN_SUCCESS",
            payload |-> [user |-> user, tokens |-> tokens]]),
         pc, [cookies |-> TRUE, user |-> user])

\* clearAuthData: cookies and localStorage removed, LOGOUT
clearAuthData(pc) ==
  Client(authReducer(call.state, [type |-> "LOGOUT"]), pc,
         [cookies |-> FALSE, user |-> Null])

\* dispatch({ type: 'SET_LOADING', payload: false })
SetLoadingFalse(pc) ==
  Client(authReducer(call.state, [type |-> "SET_LOADING", payload |-> FALSE]),
         pc, call.stored)

\* useEffect: initAuth
InitAuth ==
  /\ call.fn = "client"
  /\ call.pc = "mounting"
  /\ IF call.stored.cookies /\ call.stored.user # Null
       THEN Client(authReducer(call.state,
                     [type |-> "INIT_AUTH",
                      payload |-> [user |-> call.stored.user,
                                   tokens |-> ClientTokens]]),
                   "idle", call.stored)
       ELSE SetLoadingFalse("idle")

\* login, register, verify2FA up to the await: AUTH_START
AuthStart(op) ==
  /\ call.fn = "client"
  /\ call.pc = "idle"
  /\ Client(authReducer(call.state, [type |-> "AUTH_START"]), op, call.stored)

\* login after the await
LoginEnd(outcome, user) ==
  /\ call.fn = "client"
  /\ call.pc = "login"
  /\ CASE outcome = "requires2FA" ->
            Client(authReducer(call.state,
                     [type |-> "2FA_REQUIRED",
                      payload |-> [tempToken |-> ClientTempToken]]),
                   "idle", call.stored)
       [] outcome = "success" -> setAuthData("idle", user, ClientTokens)
       [] outcome = "unsuccessful" -> Client(call.state, "idle", call.stored)
       [] outcome = "error" -> SetLoadingFalse("idle")

\* register after the await
RegisterEnd(outcome) ==
  /\ call.fn = "client"
  /\ call.pc = "register"
  /\ outcome # "requires2FA"
  /\ IF outcome = "error"
       THEN SetLoadingFalse("idle")
       ELSE Client(call.state, "idle", call.stored)

\* verify2FA after the await
Verify2FAEnd(outcome, user) ==
  /\ call.fn = "client"
  /\ call.pc = "verify2FA"
  /\ outcome # "requires2FA"
  /\ CASE outcome = "success" -> setAuthData("idle", user, ClientTokens)
       [] outcome = "unsuccessful" -> Client(call.state, "idle", call.stored)
       [] outcome = "error" -> SetLoadingFalse("idle")

\* logout: clearAuthData whatever authApi.logout did
ClientLogout ==
  /\ call.fn = "client"
  /\ call.pc = "idle"
  /\ clearAuthData("idle")

\* refreshToken: the stored user with the new tokens, or clearAuthData
ClientRefreshToken(outcome) ==
  /\ call.fn = "client"
  /\ call.pc = "idle"
  /\ outcome # "requires2FA"
  /\ IF ~call.stored.cookies \/ outcome = "error"
       THEN clearAuthData("idle")
     ELSE IF outcome = "success"
       THEN setAuthData("idle", StoredUserOrEmpty(call.stored), ClientTokens)
     ELSE Client(call.state, "idle", call.stored)

\* updateUser: UPDATE_USER, and localStorage when a user is held
UpdateUser(firstName) ==
  /\ call.fn = "client"
  /\ call.pc = "idle"
  /\ Client(authReducer(call.state,
              [type |-> "UPDATE_USER",
               payload |-> [firstName |-> firstName]]),
            "idle",
            IF call.state.user # Null
              THEN [call.stored EXCEPT
                      !.user = SpreadUser(call.state.user,
                                          [firstName |-> firstName])]
              ELSE call.stored)

ClientNext ==
  \/ InitAuth
  \/ \E op \in {"login", "register", "verify2FA"} : AuthStart(op)
  \/ \E o \in ApiOutcomes, u \in ServerUsers : LoginEnd(o, u)
  \/ \E o \in ApiOutcomes : RegisterEnd(o)
  \/ \E o \in ApiOutcomes, u \in ServerUsers : Verify2FAEnd(o, u)
  \/ ClientLogout
  \/ \E o \in ApiOutcomes : ClientRefreshToken(o)
  \/ \E n \in {"A", "B"} : UpdateUser(n)

SpecClient == InitClient /\ [][ClientNext]_vars

(***************************************************************************)
(* Properties                                                              *)
(***************************************************************************)
\* the user a login request names with the right password (at most one)
LoginSubject(resp) ==
  {i \in UserIds : /\ users[i].email = resp.arg[1]
                   /\ comparePassword(resp.arg[2], users[i].passwordHash)}

\* C1: refresh tokens are single-use: a refresh-token call presenting a
\* token that an earlier successful refresh already consumed fails with 401
\* 'Session expired' and returns no tokens.
C1_RefreshTokenSingleUse ==
  [][(last'.op = "refresh-token" /\ last'.arg[1] \in rotated)
       => (/\ last'.code = 401
           /\ last'.msg = "Session expired"
           /\ last'.tokens = <<>>)]_vars

\* C2: of two concurrent refresh-token requests presenting the same refresh
\* token, exactly one returns a new pair and the other fails with 'Session
\* expired', whatever the interleaving.
C2_ExactlyOneRefreshWins ==
  (procs # <<>> /\ \A p \in RaceProcs : procs[p].pc = "done")
    => \E w \in RaceProcs :
         /\ procs[w].code = 200
         /\ procs[w].tokens # <<>>
         /\ \A l \in RaceProcs \ {w} :
              /\ procs[l].code = 401
              /\ procs[l].msg = "Session expired"
              /\ procs[l].tokens = <<>>

\* C3: no two Session rows hold the same refresh token, and every session
\* that login, verify-2FA or refresh-token stores carries a refresh token
\* that no session stored before carried.
C3_RefreshTokenNeverReused ==
  [][/\ \A s1, s2 \in sessions' :
          s1.refreshToken = s2.refreshToken => s1 = s2
     /\ \A s \in sessions' :
          s.id = nextSessionId => s.refreshToken \notin everStored]_vars

\* C4: a login with the correct email and password of a PENDING, SUSPENDED
\* or TERMINATED user fails with 403, returns no token pair and no
\* tempToken, and creates no Session.
C4_InactiveLoginRefused ==
  [][(/\ last'.op = "login"
      /\ \E i \in LoginSubject(last') :
           users[i].status \in {"PENDING", "SUSPENDED", "TERMINATED"})
       => (/\ last'.code = 403
           /\ last'.tokens = <<>>
           /\ last'.tempToken = <<>>
           /\ sessions' = sessions)]_vars

\* C5: a token pair is returned and a Session is created only for a user
\* whose email is verified and whose status is ACTIVE at that moment.
C5_OnlyVerifiedActiveAuthenticate ==
  [][(last'.tokens # <<>> \/ nextSessionId' # nextSessionId)
       => (/\ last'.userId \in UserIds
           /\ users[last'.userId].emailVerified
           /\ users[last'.userId].status = "ACTIVE")]_vars

\* C6: verify-2FA and refresh-token are refused and leave the session store
\* unchanged whenever the user named by the presented token is not ACTIVE.
C6_InactiveTransitionRefused ==
  [][(/\ last'.op \in {"verify-2fa", "refresh-token"}
      /\ last'.arg[1].userId \in UserIds
      /\ users[last'.arg[1].userId].status # "ACTIVE")
       => (/\ last'.code # 200
           /\ sessions' = sessions)]_vars

\* the scenario of C7: register, verify-email and login of one user, and
\* nothing else that is audited
C7_Scenario ==
  /\ auditLog = <<AuditRow(1, "USER_REGISTERED"), AuditRow(1, "EMAIL_VERIFIED"),
                  AuditRow(1, "USER_LOGIN")>>
  /\ users[1].status = "ACTIVE"
  /\ ~users[1].twoFactorEnabled

\* C7: after register, verify-email and login (no TOTP) the login returns
\* requires2FA=false and a token pair stored as a Session of the user, and
\* GET /api/auth/profile with that access token passes authenticate and
\* returns the registered email.
C7_RegisterVerifyLoginProfile ==
  /\ (C7_Scenario /\ last.op = "login" /\ last.code = 200)
       => /\ last.tempToken = <<>>
          /\ last.tokens # <<>>
          /\ \E s \in sessions : /\ s.userId = 1
                                 /\ s.token = last.tokens[1].accessToken
                                 /\ s.refreshToken = last.tokens[1].refreshToken
  /\ (/\ C7_Scenario
      /\ last.op = "profile"
      /\ last.arg # <<>>
      /\ \E s \in sessions : s.userId = 1 /\ s.token = last.arg[1]
      /\ verifyAccessToken(last.arg[1], now) = "ok")
       => /\ last.code = 200
          /\ last.userId = 1
          /\ last.email = users[1].email

\* C8: authenticate attaches an identity and lets the request proceed only
\* if the bearer token verifies as an unexpired access token, its user
\* exists, is ACTIVE and has a verified email; otherwise the request ends
\* with an error and no identity.
C8_AuthenticateGate ==
  last.op \in {"profile", "logout"}
    => IF last.userId # 0 \/ last.code = 200
         THEN /\ last.arg # <<>>
              /\ verifyAccessToken(last.arg[1], now) = "ok"
              /\ last.arg[1].userId \in UserIds
              /\ last.userId = last.arg[1].userId
              /\ users[last.userId].status = "ACTIVE"
              /\ users[last.userId].emailVerified
         ELSE last.code \in {401, 403}

\* C8 happens: an unexpired access token of a verified user who has been
\* suspended is presented and rejected
C8_Witness ==
  /\ last.op = "profile"
  /\ last.arg # <<>>
  /\ verifyAccessToken(last.arg[1], now) = "ok"
  /\ last.arg[1].userId \in UserIds
  /\ users[last.arg[1].userId].status = "SUSPENDED"
  /\ users[last.arg[1].userId].emailVerified
  /\ last.code = 401
  /\ last.userId = 0

C10_TwoFactorLoginStoresNoSession ==
  [][(/\ last'.op = "login"
      /\ \E i \in LoginSubject(last') : users[i].twoFactorEnabled)
       => sessions' = sessions]_vars

\* C11: verify-2FA creates a Session and returns a token pair for user U if
\* and only if the tempToken verifies as an access token of U, U has a TOTP
\* secret and the code is valid for it; a failing call creates no Session
\* and returns no pair.
C11_Verify2FAExactly ==
  [][last'.op = "verify-2fa"
       => LET T == last'.arg[1]
              valid ==
                /\ verifyAccessToken(T, now) = "ok"
                /\ T.userId \in UserIds
                /\ users[T.userId].twoFactorSecret # <<>>
                /\ verify2FAToken(users[T.userId].twoFactorSecret,
                                  last'.arg[2], now)
              done ==
                /\ last'.code = 200
                /\ last'.tokens # <<>>
                /\ last'.userId = T.userId
                /\ \E s \in sessions' \ sessions :
                     /\ s.userId = T.userId
                     /\ s.refreshToken = last'.tokens[1].refreshToken
          IN /\ valid <=> done
             /\ ~done => (sessions' = sessions /\ last'.tokens = <<>>)]_vars

\* C12: a logout carrying the access token A of a live session is accepted
\* and deletes exactly the Session row whose token is A: no row with token
\* A remains, every other row is unchanged, and the refresh token of the
\* deleted row finds no session any more.
C12_LogoutDeletesItsSession ==
  [][(/\ last'.op = "logout"
      /\ last'.arg # <<>>
      /\ verifyAccessToken(last'.arg[1], now) = "ok"
      /\ \E s \in sessions : /\ s.token = last'.arg[1]
                             /\ users[s.userId].status = "ACTIVE"
                             /\ users[s.userId].emailVerified)
       => (/\ last'.code = 200
           /\ sessions' = {s \in sessions : s.token # last'.arg[1]}
           /\ \A s \in sessions :
                s.token = last'.arg[1]
                  => FindSessionByRefresh(sessions', s.refreshToken) = {})]_vars

\* C13: a refresh-token call made after the session's refreshExpiresAt
\* fails with 'Session expired', issues no tokens, and leaves no Session
\* row for that refresh token.
C13_ExpiredSessionDestroyed ==
  [][(/\ last'.op = "refresh-token"
      /\ \E s \in sessions : /\ s.refreshToken = last'.arg[1]
                             /\ s.refreshExpiresAt < now)
       => (/\ last'.code = 401
           /\ last'.msg = "Session expired"
           /\ last'.tokens = <<>>
           /\ FindSessionByRefresh(sessions', last'.arg[1]) = {})]_vars

\* C14: register with an email that already belongs to a user fails with
\* 409 and changes nothing: no user created or modified, no mail sent, no
\* audit entry written.
C14_DuplicateRegisterChangesNothing ==
  [][(/\ last'.op = "register"
      /\ \E i \in UserIds : users[i].email = last'.arg[1])
       => (/\ last'.code = 409
           /\ users' = users
           /\ mailbox' = mailbox
           /\ auditLog' = auditLog)]_vars

\* C14 happens: a register was answered with 409
C14_Witness ==
  /\ last.op = "register"
  /\ last.code = 409
  /\ \E i \in UserIds : users[i].email = last.arg[1]

\* C15: when sending the verification mail fails, register answers 500 and
\* the user row it created stays committed with status PENDING; a retry of
\* register with the same email is answered with 409.
C15_SendFailureKeepsUser ==
  [][/\ (/\ last'.op = "register"
         /\ ~last'.arg[2]
         /\ \A i \in UserIds : users[i].email # last'.arg[1])
          => (/\ last'.code = 500
              /\ Len(users') = Len(users) + 1
              /\ SubSeq(users', 1, Len(users)) = users
              /\ users'[Len(users')].email = last'.arg[1]
              /\ users'[Len(users')].status = "PENDING")
     /\ (/\ last.op = "register"
         /\ last.code = 500
         /\ last'.op = "register"
         /\ last'.arg[1] = last.arg[1])
          => last'.code = 409]_vars

\* C15 happens: the only registration failed in sending, and its retry was
\* answered with 409
C15_Witness ==
  /\ last.op = "register"
  /\ last.code = 409
  /\ \A k \in DOMAIN auditLog : auditLog[k].action # "USER_REGISTERED"
  /\ \E i \in UserIds : /\ users[i].email = last.arg[1]
                        /\ users[i].status = "PENDING"

Actor(resp) ==
  IF resp.op = "verify-email" THEN resp.arg[1].userId ELSE resp.userId

\* the step is a request of one of ops that succeeded and changed a table
Transition(ops) ==
  /\ last'.op \in ops
  /\ last'.code \in {200, 201}
  /\ <<users', sessions'>> # <<users, sessions>>

\* the step appended exactly one audit entry, naming the acting user
OneAuditEntry ==
  /\ Len(auditLog') = Len(auditLog) + 1
  /\ SubSeq(auditLog', 1, Len(auditLog)) = auditLog
  /\ auditLog'[Len(auditLog')].userId = Actor(last')
  /\ Actor(last') \in UserIds'

\* C17: every successful state transition of register, login, verify-2FA,
\* refresh-token, logout and verify-email appends exactly one audit entry
\* naming the acting user, and a request that fails appends none.
C17_OneAuditPerTransition ==
  [][/\ Transition({"register", "login", "verify-2fa", "refresh-token",
                    "logout", "verify-email"}) => OneAuditEntry
     /\ last'.code \notin {200, 201} => auditLog' = auditLog]_vars

\* C17 as amended: every successful state transition of register, login,
\* verify-2FA, logout and verify-email appends exactly one audit entry
\* naming the acting user; refresh-token appends none, and a request that
\* fails appends none.
C17_OneAuditPerAuditedTransition ==
  [][/\ Transition({"register", "login", "verify-2fa", "logout",
                    "verify-email"}) => OneAuditEntry
     /\ last'.op = "refresh-token" => auditLog' = auditLog
     /\ last'.code \notin {200, 201} => auditLog' = auditLog]_vars

\* C17 happens: a login was audited and the refresh that followed was not
C17_Witness ==
  /\ last.op = "refresh-token"
  /\ last.code = 200
  /\ auditLog # <<>>
  /\ auditLog[Len(auditLog)] = [userId |-> last.userId, action |-> "USER_LOGIN"]

\* C18: a request passes authorize(roles) only if it carries an identity
\* whose role is in roles; without identity it fails with 401, with a role
\* outside the set with 403; a CUSTOMER never passes the gate of the admin
\* router.
C18_RoleGate ==
  (call.fn = "authorize" /\ call.done)
    => /\ call.pass <=> (call.user # <<>> /\ call.user[1].role \in call.roles)
       /\ call.user = <<>> => call.code = 401
       /\ (call.user # <<>> /\ call.user[1].role \notin call.roles)
            => call.code = 403
       /\ (/\ call.roles = AdminRoles
           /\ call.user # <<>>
           /\ call.user[1].role = "CUSTOMER") => ~call.pass

\* C18 happens: a CUSTOMER was turned away from the admin router with 403
C18_Witness ==
  /\ call.fn = "authorize"
  /\ call.done
  /\ call.roles = AdminRoles
  /\ call.user # <<>>
  /\ call.user[1].role = "CUSTOMER"
  /\ ~call.pass
  /\ call.code = 403

C20_TokensNotInterchangeable ==
  (call.fn = "tokens" /\ call.stage = "verified")
    => /\ call.accessOnRefresh = "Invalid access token"
       /\ call.refreshOnAccess = "Invalid refresh token"

\* distance in ms between the check and the generation of the code
TotpDistance ==
  IF call.t >= call.t0 THEN call.t - call.t0 ELSE call.t0 - call.t

\* distance in 30 s steps between the check and the generation of the code
TotpStepDistance ==
  IF TotpCounter(call.t) >= TotpCounter(call.t0)
    THEN TotpCounter(call.t) - TotpCounter(call.t0)
    ELSE TotpCounter(call.t0) - TotpCounter(call.t)

\* C21: verify2FAToken accepts a code generated at T0 exactly when it is
\* checked within T0 +- 60 s: it accepts inside the window and rejects at
\* every time outside it, the first instant past either edge included.
C21_TotpWindowExact ==
  (call.fn = "totp" /\ call.stage = "checked")
    => (call.ok <=> TotpDistance <= 60000)

\* C21 (amended): the window is counted in 30 s steps, not in seconds from
\* T0: the code is accepted exactly when the step of the check is within 2
\* steps of the step of T0; so it is accepted at every time within
\* T0 +- 60 s and rejected at every time 90 s or more away from T0.
C21_TotpWindowInSteps ==
  (call.fn = "totp" /\ call.stage = "checked")
    => /\ call.ok <=> TotpStepDistance <= TotpWindow
       /\ TotpDistance <= 60000 => call.ok
       /\ TotpDistance >= 90000 => ~call.ok

\* C21 happens: a code checked exactly 60 s after T0 is accepted
C21_Witness ==
  /\ call.fn = "totp"
  /\ call.stage = "checked"
  /\ call.t = call.t0 + 60000
  /\ call.ok

\* the sum of the four breakdown terms of a response, added as numbers
BreakdownSum(data) ==
  DblAdd(DblAdd(DblAdd(data.breakdown.cpu, data.breakdown.ram),
                data.breakdown.storage),
         data.breakdown.operatingSystem)

\* C22: calculate-price is a pure function of the configuration: repeated
\* calls with the same configuration return the same totalPrice and
\* breakdown, totalPrice equals the sum of the four breakdown terms, and
\* doubling storageGb doubles the storage term and leaves the cpu, ram and
\* operatingSystem terms unchanged.
C22_PricingPureAndLinear ==
  call.fn = "price" =>
    \A i, j \in DOMAIN call.log :
      LET a == call.log[i]
          b == call.log[j]
      IN /\ a.body = b.body => a.data = b.data
         /\ a.data.totalPrice = BreakdownSum(a.data)
         /\ b.body = DoubledStorage(a.body) =>
              /\ b.data.breakdown.storage
                   = DblMul(DblOfInt(2), a.data.breakdown.storage)
              /\ b.data.breakdown.cpu = a.data.breakdown.cpu
              /\ b.data.breakdown.ram = a.data.breakdown.ram
              /\ b.data.breakdown.operatingSystem
                   = a.data.breakdown.operatingSystem

\* C23: when a step of a production deployment fails (image pull, rollout
\* of the new colour, smoke tests, post-switch health check or performance
\* validation), the error handler attempts a rollback of the component and
\* sends a failure notification before the script exits.
C23_FailureRollsBackAndNotifies ==
  (/\ call.fn = "deploy"
   /\ call.pc = "exited"
   /\ call.failedAt \in {"pull", "rollout", "smoke", "health", "performance"})
    => /\ call.rollback
       /\ \E i \in DOMAIN call.notified : call.notified[i] = "failure"

\* C24: a user's emailVerified flag (and the PENDING to ACTIVE transition)
\* is only obtained with the verification token that register emailed for
\* that user: no other access token, in particular one returned by login of
\* the still unverified user, is accepted by verify-email.
C24_OnlyMailedTokenVerifies ==
  [][\A i \in UserIds :
       (/\ last'.op = "verify-email"
        /\ ~users[i].emailVerified
        /\ users'[i].emailVerified)
         => [to |-> users[i].email, token |-> last'.arg[1]] \in mailbox]_vars

\* C25: a refresh-token call that fails at any step (invalid or expired
\* token, missing or expired session, non-ACTIVE user, failing session
\* delete or create) leaves the session store exactly as it was, so the
\* caller's existing session can still be refreshed afterwards.
C25_FailedRefreshKeepsSessions ==
  [][(last'.op = "refresh-token" /\ last'.code # 200)
       => sessions' = sessions]_vars

\* C26: for every interleaving of two concurrent register requests with the
\* same email (whose verification mail can be sent), at most one user with
\* that email exists afterwards, exactly one request succeeds with 201, and
\* the other is answered with the 409 conflict error.
C26_OneRegistrationWins ==
  (/\ procs # <<>>
   /\ \A p \in RaceProcs : procs[p].pc = "done"
   /\ \A p \in RaceProcs : procs[p].msg # "Failed to send email")
    => /\ Cardinality({i \in UserIds : users[i].email = procs[1].email}) <= 1
       /\ \E p \in RaceProcs :
            /\ procs[p].code = 201
            /\ \A q \in RaceProcs \ {p} :
                 /\ procs[q].code = 409
                 /\ procs[q].msg = "A user with this email already exists"

\* C27: verify-email never moves a SUSPENDED or TERMINATED user to ACTIVE:
\* the only status change it ever performs is PENDING to ACTIVE.
C27_VerifyEmailOnlyActivatesPending ==
  [][last'.op = "verify-email"
       => \A i \in UserIds :
            users'[i].status # users[i].status
              => /\ users[i].status = "PENDING"
                 /\ users'[i].status = "ACTIVE"]_vars

\* C28: a tempToken completes the second factor at most once: when the
\* last request was a successful verify-2FA with a tempToken T that login
\* returned and code C, a
\* verify-2FA request with the same T and C creates no further Session and
\* returns no token pair.
C28_TempTokenCompletesOnce ==
  [][(/\ last.op = "verify-2fa"
      /\ last.code = 200
      /\ last.arg[1] \in tempTokens
      /\ now' = now
      /\ last'.op = "verify-2fa"
      /\ last'.arg = last.arg)
       => /\ sessions' = sessions
          /\ last'.tokens = <<>>]_vars

\* C29: in every state reachable by the client auth reducer the flags
\* describe exactly one lifecycle state: isAuthenticated holds exactly when
\* user and tokens are both non-null, requires2FA holds exactly when
\* tempToken is non-null, and the two are never both true.
C29_ClientFlagsConsistent ==
  call.fn = "client" =>
    /\ call.state.isAuthenticated
         <=> (call.state.user # Null /\ call.state.tokens # Null)
    /\ call.state.requires2FA <=> call.state.tempToken # Null
    /\ ~(call.state.isAuthenticated /\ call.state.requires2FA)

\* C30: every AUTH_START is eventually followed by isLoading = false:
\* whatever the outcome of login, register or verify2FA, once the operation
\* that dispatched AUTH_START has ended the client is no longer loading.
C30_LoadingEndsWithOperation ==
  (call.fn = "client" /\ call.pc = "idle") => ~call.state.isLoading
====
